---- MODULE Spec2Model ----
(***************************************************************************)
(* GrowthMap: sequential unlocking of learning modules.                    *)
(*                                                                         *)
(* The state is the two tables of the schema (modules,                     *)
(* user_module_progress) and the PostgreSQL transactions that run the      *)
(* function complete_module.  Each call of complete_module is one          *)
(* transaction (an RPC call); its statements are separate steps, its       *)
(* writes stay private (and hold row locks) until the transaction commits, *)
(* and an error at any statement rolls the transaction back.  Statements   *)
(* run at READ COMMITTED, the default level: each statement reads the      *)
(* latest committed rows, and a write waits for a row another transaction  *)
(* has written and not yet committed.                                      *)
(*                                                                         *)
(* Columns id, title, description and created_at are not modelled: no      *)
(* statement of the functions reads them.                                  *)
(*                                                                         *)
(* Next to complete_module and the stored-status get_user_modules stand    *)
(* the functions of the earlier design document (the computed status       *)
(* get_module_status, the trigger handle_module_completion) and the list   *)
(* screen of the client, whose cards run handlePress.                      *)
(***************************************************************************)
EXTENDS Integers, Sequences, FiniteSets

\* ---------------------------------------------------------------- bounds

NumModules == 3
MaxTime == 2

Users == {"u1", "u2"}
Procs == {"p1", "p2"}

ModuleIds == 1..NumModules

\* ------------------------------------------------------------ SQL values

NULL == -1
NullStatus == "NULL"

Row(st, c, s, up) ==
    [status |-> st, completed_at |-> c, started_at |-> s, updated_at |-> up]

\* No row of user_module_progress for a (user_id, module_id).
NoRow == Row(NullStatus, NULL, NULL, NULL)

\* A row the transaction has not written.
Untouched == Row("untouched", NULL, NULL, NULL)

COALESCE(a, b) == IF a # NULL THEN a ELSE b

VARIABLES
    modules,    \* table modules: id -> order_index
    progress,   \* committed rows of user_module_progress: user -> module -> row
    now,        \* the clock as last read by NOW() at the start of a transaction
    session,    \* per connection: the authenticated user, auth.uid()
    pc,         \* per transaction: the statement of complete_module it is at
    call,       \* per transaction: arguments and local variables
    pending,    \* per transaction: rows written and not yet committed
    last,       \* history: the last call that returned
    scen,       \* history: per user, how far the calls follow Scenario
    ui,         \* client: the card last pressed and what the press did
    completions \* history: per user, the calls that changed the store (or CountOff)

vars == <<modules, progress, now, session, pc, call, pending, last, scen, ui, completions>>

\* ------------------------------------------------------------- catalog

\* The seed catalog: order_index 1, 2, 3, ... in insertion (id) order.
SeedCatalog == [id \in ModuleIds |-> id]

FirstModule == CHOOSE id \in ModuleIds : \A o \in ModuleIds : modules[id] <= modules[o]

\* SELECT id FROM modules WHERE order_index = (order_index of m) + 2: a lookup
\* that skips a module.
next_module_id_skip(m) ==
    IF \E id \in ModuleIds : modules[id] = modules[m] + 2
    THEN CHOOSE id \in ModuleIds : modules[id] = modules[m] + 2
    ELSE NULL

\* SELECT id ... WHERE order_index = (SELECT order_index + 1 ... WHERE id = m),
\* wrapping to the first module after the last one.
next_module_id_wrap(m) ==
    IF \E id \in ModuleIds : modules[id] = modules[m] + 1
    THEN CHOOSE id \in ModuleIds : modules[id] = modules[m] + 1
    ELSE FirstModule

\* SELECT id INTO v_next_module_id FROM modules
\* WHERE order_index = (SELECT order_index + 1 FROM modules WHERE id = m) LIMIT 1
next_module_id(m) ==
    IF \E id \in ModuleIds : modules[id] = modules[m] + 1
    THEN CHOOSE id \in ModuleIds : modules[id] = modules[m] + 1
    ELSE NULL

\* The ids of modules in ORDER BY order_index: the i-th is the module with
\* i - 1 modules of smaller order_index (order_index is UNIQUE).
ModulesInOrder ==
    [i \in 1..NumModules |->
        CHOOSE id \in ModuleIds :
            Cardinality({o \in ModuleIds : modules[o] < modules[id]}) = i - 1]

\* ---------------------------------------------------- get_user_modules

\* One output row of get_user_modules for module m.
UserModuleRow(u, m) ==
    [id |-> m,
     order_index |-> modules[m],
     status |-> IF progress[u][m] = NoRow THEN "locked" ELSE progress[u][m].status,
     completed_at |-> progress[u][m].completed_at,
     started_at |-> progress[u][m].started_at]

get_user_modules(u) ==
    [i \in 1..NumModules |-> UserModuleRow(u, ModulesInOrder[i])]

\* ------------------------------------------- computed status (design doc)

\* SELECT COUNT(*) FROM modules WHERE order_index < v_order_index
total_previous_modules(m) ==
    Cardinality({o \in ModuleIds : modules[o] < modules[m]})

\* SELECT COUNT(*) FROM user_module_progress ump JOIN modules m ... WHERE
\* ump.user_id = u AND ump.status = 'done' AND m.order_index < v_order_index
previous_done_count(u, m) ==
    Cardinality({o \in ModuleIds : /\ progress[u][o] # NoRow
                                   /\ progress[u][o].status = "done"
                                   /\ modules[o] < modules[m]})

\* get_module_status counting every stored row before m, done or not.
get_module_status_any_row(u, m) ==
    IF progress[u][m].status = "done" THEN "done"
    ELSE IF modules[m] = 1 THEN "active"
    ELSE IF Cardinality({o \in ModuleIds : /\ progress[u][o] # NoRow
                                           /\ modules[o] < modules[m]})
              = total_previous_modules(m)
         THEN "active"
         ELSE "locked"

\* get_module_status(p_user_id, p_module_id)
get_module_status(u, m) ==
    IF progress[u][m].status = "done" THEN "done"
    ELSE IF modules[m] = 1 THEN "active"
    ELSE IF previous_done_count(u, m) = total_previous_modules(m) THEN "active"
    ELSE "locked"

\* The CASE returning the stored status of a row that exists, and computing
\* only where there is none.
module_statuses_stored(u, m) ==
    IF progress[u][m] # NoRow THEN progress[u][m].status
    ELSE IF modules[m] = 1 THEN "active"
    ELSE IF previous_done_count(u, m) = total_previous_modules(m) THEN "active"
    ELSE "locked"

\* The CASE of the CTE module_statuses in the computing get_user_modules, for
\* the row of module m in the LEFT JOIN with the rows of u.
module_statuses(u, m) ==
    CASE progress[u][m].status = "done" -> "done"
      [] progress[u][m].status # "done" /\ modules[m] = 1 -> "active"
      [] /\ progress[u][m].status # "done" /\ modules[m] # 1
         /\ previous_done_count(u, m) = total_previous_modules(m) -> "active"
      [] OTHER -> "locked"

\* ------------------------------------------------------ complete_module

\* The guard with the comparison to 'active' dropped: only a missing row returns.
ReturnsEarlyNullOnly(v) == v = NullStatus

\* The guard testing for 'done' instead of for anything but 'active'.
ReturnsEarlyDoneOnly(v) == v = NullStatus \/ v = "done"

\* IF v_current_status IS NULL OR v_current_status != 'active' THEN RETURN
ReturnsEarly(v) == v = NullStatus \/ v # "active"

\* The UPDATE setting the status alone, without completed_at.
DoneRowStatusOnly(row, t) ==
    [row EXCEPT !.status = "done", !.updated_at = t]

\* SET status = 'done', completed_at = NOW(), updated_at = NOW()
DoneRow(row, t) ==
    [row EXCEPT !.status = "done", !.completed_at = t, !.updated_at = t]

\* The upsert setting started_at = NOW() without the COALESCE.
UpsertActiveResetStart(row, t) ==
    IF row = NoRow
    THEN Row("active", NULL, t, t)
    ELSE IF row.status # "done"
         THEN [row EXCEPT !.status = "active", !.started_at = t, !.updated_at = t]
         ELSE row

\* The upsert without its WHERE clause: a done successor is reopened.
UpsertActiveNoWhere(row, t) ==
    IF row = NoRow
    THEN Row("active", NULL, t, t)
    ELSE [row EXCEPT !.status = "active",
                     !.started_at = COALESCE(row.started_at, t),
                     !.updated_at = t]

\* INSERT ... VALUES (u, next, 'active', NOW()) ON CONFLICT (user_id, module_id)
\* DO UPDATE SET status = 'active', started_at = COALESCE(started_at, NOW()),
\* updated_at = NOW() WHERE user_module_progress.status != 'done'
UpsertActive(row, t) ==
    IF row = NoRow
    THEN Row("active", NULL, t, t)
    ELSE IF row.status # "done"
         THEN [row EXCEPT !.status = "active",
                          !.started_at = COALESCE(row.started_at, t),
                          !.updated_at = t]
         ELSE row

InFlight(p) == pc[p] # "idle"

\* A lock on the module's rows of every user instead of the row (u, m).
LockedByAnyUser(q, u, m) == InFlight(q) /\ pending[q][m] # Untouched

\* Transaction q holds the lock of row (u, m): it wrote the row and has not ended.
LockedBy(q, u, m) == InFlight(q) /\ call[q].u = u /\ pending[q][m] # Untouched

LockedByOther(p, u, m) == \E q \in Procs \ {p} : LockedBy(q, u, m)

\* A write that reaches the committed table at once, outside the transaction.
WriteAutocommit(p, m, row) ==
    /\ progress' = [progress EXCEPT ![call[p].u][m] = row]
    /\ UNCHANGED pending

\* A write of transaction p: private to p until it commits.
Write(p, m, row) ==
    /\ pending' = [pending EXCEPT ![p][m] = row]
    /\ UNCHANGED progress

NoPending == [m \in ModuleIds |-> Untouched]

IdleCall == [u |-> "none", m |-> 0, now |-> NULL,
             v_current_status |-> NullStatus,
             repeat |-> "no"]

\* History (read by no statement of the program): what the last call that
\* returned did, and in call[p].repeat whether call p directly follows, with no
\* other call in between or alongside, a call with the same arguments.
\* No call has returned since the last call was made.
NoLast == [u |-> "none", m |-> 0, result |-> "none", wrote |-> FALSE, repeat |-> "no"]


\* ------------------------------------------------------------- scenario

\* The calls of the example scenario, as positions in catalog order:
\* completeModule(u, A), (u, A), (u, C), (u, B) on [A(1), B(2), C(3)].
Scenario == <<1, 1, 3, 2>>

ScenOff == 0 - 1

\* The count of state-changing calls of a user that is not kept.
CountOff == 0 - 1

ScenNext(k, m, result) ==
    IF /\ k >= 0
       /\ k < Len(Scenario)
       /\ result # "failed"
       /\ Scenario[k + 1] <= NumModules
       /\ m = ModulesInOrder[Scenario[k + 1]]
    THEN k + 1
    ELSE ScenOff

\* The call of p returns (or aborts) with the given result.
Returns(p, result) ==
    /\ last' = [u |-> call[p].u, m |-> call[p].m, result |-> result,
                wrote |-> pending[p] # NoPending, repeat |-> call[p].repeat]
    /\ scen' = [scen EXCEPT ![call[p].u] = ScenNext(scen[call[p].u], call[p].m, result)]
    /\ pc' = [pc EXCEPT ![p] = "idle"]
    /\ call' = [call EXCEPT ![p] = IdleCall]

\* ------------------------------------------ trigger (design document)

\* The trigger opening the next module on every write of a done row, also
\* when the row was done before.
handle_module_completion_always(rows, m, old, new, t) ==
    IF new.status = "done"
    THEN IF next_module_id(m) # NULL
         THEN [rows EXCEPT ![next_module_id(m)] =
                  UpsertActive(rows[next_module_id(m)], t)]
         ELSE rows
    ELSE rows

\* handle_module_completion, AFTER INSERT OR UPDATE ... FOR EACH ROW: rows are
\* the rows of NEW.user_id after the statement wrote NEW in place of OLD for
\* module m.  Its lookup and its upsert are those of complete_module.
handle_module_completion(rows, m, old, new, t) ==
    IF new.status = "done" /\ (old.status = NullStatus \/ old.status # "done")
    THEN IF next_module_id(m) # NULL
         THEN [rows EXCEPT ![next_module_id(m)] =
                  UpsertActive(rows[next_module_id(m)], t)]
         ELSE rows
    ELSE rows

\* UPDATE user_module_progress SET status = 'done' WHERE user_id = u AND
\* module_id = m, with the trigger installed: the rows of u after the
\* statement.  Without a row for (u, m) the UPDATE writes nothing and the
\* trigger does not run.
UpdateWithTrigger(rows, m, t) ==
    IF rows[m] = NoRow
    THEN rows
    ELSE handle_module_completion([rows EXCEPT ![m].status = "done"],
                                  m, rows[m], [rows[m] EXCEPT !.status = "done"], t)

\* --------------------------------------------------------------- client

\* The statuses of the hardcoded cards of HomeScreen, module ids 1 to 5.
MODULES == <<"done", "active", "locked", "locked", "locked">>

NoPress == [card |-> 0, alert |-> FALSE, started |-> FALSE]

\* handlePress starting the lesson for every module that is not done.
handlePressNotDone(status) ==
    [alert |-> status = "locked", started |-> status # "done"]

\* handlePress: a locked module shows the alert and returns; otherwise an
\* active module logs 'Start lesson'; a done module does nothing.
handlePress(status) ==
    [alert |-> status = "locked",
     started |-> status # "locked" /\ status = "active"]

\* -------------------------------------------------------------- actions

\* supabase.rpc('complete_module', {p_user_id: u, p_module_id: m}): a transaction
\* starts; NOW() is its start time t, the clock having stood still or advanced
\* since it was last read.  A connection calls for its own user: row level
\* security (auth.uid() = user_id) shows it no other user's rows.
Call(p, u, m, t) ==
    /\ pc[p] = "idle"
    /\ u = session[p]
    /\ now' = t
    /\ pc' = [pc EXCEPT ![p] = "select"]
    /\ call' = [q \in Procs |->
                  IF q = p
                  THEN [u |-> u, m |-> m, now |-> t,
                        v_current_status |-> NullStatus,
                        repeat |-> IF /\ last.u = u /\ last.m = m
                                      /\ \A r \in Procs : ~ InFlight(r)
                                   THEN last.result ELSE "no"]
                  ELSE [call[q] EXCEPT !.repeat = "no"]]
    /\ last' = NoLast
    /\ scen' = [scen EXCEPT ![u] =
                  IF \E q \in Procs \ {p} : InFlight(q) /\ call[q].u = u
                  THEN ScenOff ELSE scen[u]]
    /\ UNCHANGED <<modules, progress, session, pending, ui, completions>>

\* SELECT status INTO v_current_status ...; IF ... THEN RETURN; END IF
SelectStatus(p) ==
    /\ pc[p] = "select"
    /\ LET v == progress[call[p].u][call[p].m].status IN
       IF ReturnsEarly(v)
       THEN /\ Returns(p, "noop")
            /\ UNCHANGED <<modules, progress, now, session, pending, ui, completions>>
       ELSE /\ pc' = [pc EXCEPT ![p] = "update"]
            /\ call' = [call EXCEPT ![p].v_current_status = v]
            /\ UNCHANGED <<modules, progress, now, session, pending, last, scen, ui, completions>>

\* UPDATE user_module_progress SET status = 'done', ... WHERE user_id = u AND
\* module_id = m.  Waits while another transaction holds the row; then updates
\* the latest committed version of the row, if there is one.
UpdateDone(p) ==
    /\ pc[p] = "update"
    /\ ~ LockedByOther(p, call[p].u, call[p].m)
    /\ LET row == progress[call[p].u][call[p].m] IN
       IF row # NoRow
       THEN Write(p, call[p].m, DoneRow(row, call[p].now))
       ELSE UNCHANGED <<progress, pending>>
    /\ pc' = [pc EXCEPT ![p] = "next"]
    /\ UNCHANGED <<modules, now, session, call, last, scen, ui, completions>>

\* SELECT id INTO v_next_module_id ...; IF v_next_module_id IS NOT NULL THEN
\* INSERT ... ON CONFLICT DO UPDATE ... WHERE status != 'done'.  The lookup
\* reads only the catalog, which no call writes.  The upsert waits while another
\* transaction holds the successor's row; the conflicting row is locked even
\* when the WHERE clause leaves it as it is.
OpenNext(p) ==
    /\ pc[p] = "next"
    /\ LET v_next_module_id == next_module_id(call[p].m) IN
       IF v_next_module_id # NULL
       THEN /\ ~ LockedByOther(p, call[p].u, v_next_module_id)
            /\ Write(p, v_next_module_id,
                     UpsertActive(progress[call[p].u][v_next_module_id], call[p].now))
       ELSE UNCHANGED <<progress, pending>>
    /\ pc' = [pc EXCEPT ![p] = "commit"]
    /\ UNCHANGED <<modules, now, session, call, last, scen, ui, completions>>

\* END of the function: the transaction commits, its rows become visible together.
Commit(p) ==
    /\ pc[p] = "commit"
    /\ progress' = [progress EXCEPT ![call[p].u] =
                      [m \in ModuleIds |->
                         IF pending[p][m] # Untouched THEN pending[p][m] ELSE @[m]]]
    /\ pending' = [pending EXCEPT ![p] = NoPending]
    /\ Returns(p, "applied")
    /\ completions' = [completions EXCEPT ![call[p].u] =
                         IF @ # CountOff /\ progress' # progress THEN @ + 1 ELSE @]
    /\ UNCHANGED <<modules, now, session, ui>>

\* An error (or a lost connection) at any statement: the transaction rolls back.
Fail(p) ==
    /\ InFlight(p)
    /\ pending' = [pending EXCEPT ![p] = NoPending]
    /\ Returns(p, "failed")
    /\ UNCHANGED <<modules, progress, now, session, ui, completions>>

\* The user presses card i of the list: onPress runs handlePress with the
\* status of the card's module.  The cards are a constant of the screen, and
\* handlePress calls nothing that writes.
Press(i) ==
    /\ ui' = [card |-> i,
              alert |-> handlePress(MODULES[i]).alert,
              started |-> handlePress(MODULES[i]).started]
    /\ UNCHANGED <<modules, progress, now, session, pc, call, pending, last, scen, completions>>

\* A connection sets the row of its user for module m to done by an UPDATE,
\* the design with the trigger: statement and trigger are one transaction of
\* one statement, which waits for the locks of the rows it writes.  NOW() is
\* the clock as it stands; a call of complete_module before it may have
\* moved the clock on.
SetDone(p, m) ==
    /\ pc[p] = "idle"
    /\ session[p] \in Users
    /\ ~ LockedByOther(p, session[p], m)
    /\ next_module_id(m) # NULL => ~ LockedByOther(p, session[p], next_module_id(m))
    /\ progress' = [progress EXCEPT ![session[p]] = UpdateWithTrigger(@, m, now)]
    /\ last' = [u |-> session[p], m |-> m, result |-> "trigger",
                wrote |-> progress[session[p]][m] # NoRow, repeat |-> "no"]
    /\ scen' = [scen EXCEPT ![session[p]] = ScenOff]
    /\ UNCHANGED <<modules, now, session, pc, call, pending, ui, completions>>

Next ==
    \/ \E p \in Procs, u \in Users, m \in ModuleIds, t \in now..MaxTime : Call(p, u, m, t)
    \/ \E p \in Procs : SelectStatus(p)
    \/ \E p \in Procs : UpdateDone(p)
    \/ \E p \in Procs : OpenNext(p)
    \/ \E p \in Procs : Commit(p)
    \/ \E p \in Procs : Fail(p)

\* ------------------------------------------------------- initial states

\* A user who has not started: no row at all.
NewUser == [m \in ModuleIds |-> NoRow]

\* A user whose first module was opened at time 0.
StartedUser == [m \in ModuleIds |->
                  IF m = 1 THEN Row("active", NULL, 0, 0) ELSE NoRow]

\* Two connections of the same user: a client and its retry, or two devices.
TwoSessions == [p \in Procs |-> "u1"]

\* One connection only: the second is not open ("none" is no user).
OneSession == [p \in Procs |-> IF p = "p1" THEN "u1" ELSE "none"]

\* No call in progress, nothing pressed.
InitProcs ==
    /\ pc = [p \in Procs |-> "idle"]
    /\ call = [p \in Procs |-> IdleCall]
    /\ pending = [p \in Procs |-> NoPending]
    /\ last = NoLast
    /\ scen = [u \in Users |-> IF progress[u] = NewUser THEN 0 ELSE ScenOff]
    /\ ui = NoPress

\* No call in progress, and the calls that change the store are not counted.
InitCalls ==
    /\ InitProcs
    /\ completions = [u \in Users |-> CountOff]

\* The clock at 1, after the time 0 of the rows already stored.
InitIdle ==
    /\ now = 1
    /\ InitCalls

\* The clock at its last value: every statement from here on reads the same
\* NOW(), later than the rows already stored.
InitLate ==
    /\ now = MaxTime
    /\ InitCalls

InitRest ==
    /\ modules = SeedCatalog
    /\ InitIdle

\* The store as the application leaves it: every user is new or has started.
Init ==
    /\ progress \in [Users -> {NewUser, StartedUser}]
    /\ session = TwoSessions
    /\ InitRest

Spec == Init /\ [][Next]_vars

\* Rows the schema admits: none, or one of the three statuses, a locked row
\* with started_at unset, an active one started and a done one completed at 0.
AnyRows ==
    {NoRow,
     Row("locked", NULL, NULL, 0),
     Row("active", NULL, 0, 0),
     Row("done", 0, 0, 0)}

\* Any store the schema admits for the calling user: rows can also be written
\* directly (RLS lets a user insert and update their own rows).  Calls on such
\* a store come from one connection; the stores of Init keep their connections.
InitAny ==
    \/ Init
    \/ /\ progress \in [Users -> [ModuleIds -> AnyRows]]
       /\ progress["u2"] = StartedUser
       /\ session = OneSession
       /\ InitRest

SpecAny == InitAny /\ [][Next]_vars

\* One connection on the store as the application leaves it.
InitOne ==
    /\ progress \in [Users -> {NewUser, StartedUser}]
    /\ session = OneSession
    /\ InitRest

\* The list screen next to the backend: the user presses cards.
NextClient ==
    \/ Next
    \/ \E i \in 1..Len(MODULES) : Press(i)

SpecClient == InitOne /\ [][NextClient]_vars

\* One connection for each of two users.
SplitSessions == [p \in Procs |-> IF p = "p1" THEN "u1" ELSE "u2"]

InitUsers ==
    /\ progress \in [Users -> {NewUser, StartedUser}]
    /\ session = SplitSessions
    /\ InitRest

SpecUsers == InitUsers /\ [][Next]_vars

\* order_index INTEGER NOT NULL UNIQUE: any catalog with distinct positions,
\* 1-based, contiguous or with a gap, in any order of the ids.
MaxOrder == NumModules + 1

Catalogs ==
    {c \in [ModuleIds -> 1..MaxOrder] : \A a, b \in ModuleIds : a # b => c[a] # c[b]}

\* A user whose first module in the order of catalog c was opened at time 0.
StartedOn(c) ==
    [m \in ModuleIds |->
        IF \A o \in ModuleIds : c[m] <= c[o] THEN Row("active", NULL, 0, 0) ELSE NoRow]

InitCatalog ==
    /\ modules \in Catalogs
    /\ progress = [u \in Users |-> StartedOn(modules)]
    /\ session = OneSession
    /\ InitIdle

SpecCatalog == InitCatalog /\ [][Next]_vars

\* The catalogs whose ids were given out in the order of the positions.
OrderedCatalogs ==
    {c \in Catalogs : \A a, b \in ModuleIds : a < b => c[a] < c[b]}

\* Any such catalog and, for the calling user, any rows the schema admits.
InitProjection ==
    /\ modules \in OrderedCatalogs
    /\ progress \in [Users -> [ModuleIds -> AnyRows]]
    /\ progress["u2"] = StartedOn(modules)
    /\ session = OneSession
    /\ InitLate

SpecProjection == InitProjection /\ [][Next]_vars

\* The design with the trigger next to complete_module: one connection, any
\* rows the schema admits for its user.
InitTrigger ==
    /\ progress \in [Users -> [ModuleIds -> AnyRows]]
    /\ progress["u2"] = StartedUser
    /\ session = OneSession
    /\ modules = SeedCatalog
    /\ InitLate

NextTrigger ==
    \/ Next
    \/ \E p \in Procs, m \in ModuleIds : SetDone(p, m)

SpecTrigger == InitTrigger /\ [][NextTrigger]_vars

\* A user whose first module is active, with two connections (a client and
\* its retry), on the seed catalog; the calls that change the store are counted.
InitLive ==
    /\ progress = [u \in Users |-> IF u = "u1" THEN StartedUser ELSE NewUser]
    /\ session = TwoSessions
    /\ modules = SeedCatalog
    /\ now = 1
    /\ InitProcs
    /\ completions = [u \in Users |-> 0]

\* completeModule(userId, moduleId) on the module get_user_modules shows
\* active for the caller; once no module is active, on any module.
CallActive(p, m, t) ==
    /\ session[p] \in Users
    /\ \/ progress[session[p]][m].status = "active"
       \/ \A o \in ModuleIds : progress[session[p]][o].status # "active"
    /\ Call(p, session[p], m, t)

\* The calls of such a user, each running to its end.
NextLive ==
    \/ \E p \in Procs, m \in ModuleIds, t \in now..MaxTime : CallActive(p, m, t)
    \/ \E p \in Procs : SelectStatus(p)
    \/ \E p \in Procs : UpdateDone(p)
    \/ \E p \in Procs : OpenNext(p)
    \/ \E p \in Procs : Commit(p)

\* The user keeps calling, and PostgreSQL runs every statement of a
\* transaction that is not waiting for a lock.
FairLive ==
    /\ WF_vars(\E p \in Procs, m \in ModuleIds, t \in now..MaxTime : CallActive(p, m, t))
    /\ \A p \in Procs :
          /\ WF_vars(SelectStatus(p))
          /\ WF_vars(UpdateDone(p))
          /\ WF_vars(OpenNext(p))
          /\ WF_vars(Commit(p))

SpecLive == InitLive /\ [][NextLive]_vars /\ FairLive

\* ---------------------------------------------------------- step shapes

\* The step in which the call of p ends: it returns or it aborts.
Ends(p) == pc[p] # "idle" /\ pc'[p] = "idle"

\* The step in which the transaction of p commits.
Commits(p) == pc[p] = "commit" /\ pc'[p] = "idle" /\ last'.result = "applied"

\* The step in which the transaction of p aborts.
Aborts(p) == pc[p] # "idle" /\ pc'[p] = "idle" /\ last'.result = "failed"

IsLastModule(m) == \A o \in ModuleIds : modules[o] <= modules[m]

UserIdle(u) == \A p \in Procs : ~ (InFlight(p) /\ call[p].u = u)

\* The statuses of get_user_modules(u), in catalog order.
StatusView(u) == [i \in 1..NumModules |-> get_user_modules(u)[i].status]

\* ----------------------------------------------------------------- C1

\* C1: the modules get_user_modules reports done for a user are a prefix of
\* the catalog order: whenever the i-th module is done, every module before it
\* is done too.
PrefixInvariant ==
    \A u \in Users :
        LET view == StatusView(u) IN
        \A i \in 1..NumModules :
            view[i] = "done" => \A j \in 1..NumModules : j < i => view[j] = "done"

\* A user has completed the first two modules and not yet all of them.
PrefixWitness ==
    \E u \in Users :
        /\ StatusView(u)[2] = "done"
        /\ StatusView(u)[NumModules] # "done"

\* ----------------------------------------------------------------- C2

\* C2: for a user with no row at all, get_user_modules reports the first
\* module of the catalog active and every other module locked.
FirstModuleDefault ==
    \A u \in Users :
        progress[u] = NewUser =>
            /\ StatusView(u)[1] = "active"
            /\ \A i \in 2..NumModules : StatusView(u)[i] = "locked"

\* ----------------------------------------------------------------- C3

\* What the example scenario expects get_user_modules to report after k of
\* its calls: A active at the start, then A done and B active, and after the
\* last call A and B done and C active; every other module locked.
ScenarioView(k) ==
    [i \in 1..NumModules |->
        IF k = 0 THEN (IF i = 1 THEN "active" ELSE "locked")
        ELSE IF k < Len(Scenario)
             THEN (IF i = 1 THEN "done" ELSE IF i = 2 THEN "active" ELSE "locked")
             ELSE (IF i <= 2 THEN "done" ELSE IF i = 3 THEN "active" ELSE "locked")]

\* C3: a new user (no rows) who makes the calls of the example scenario one
\* after the other, completeModule(u, A), (u, A), (u, C), (u, B), sees after
\* each of them the projection the scenario gives: {A active, B locked,
\* C locked} at the start, {A done, B active, C locked} after the first, the
\* second and the third call, {A done, B done, C active} after the fourth.
ExampleScenario ==
    \A u \in Users :
        (scen[u] >= 0 /\ UserIdle(u)) => StatusView(u) = ScenarioView(scen[u])

\* ----------------------------------------------------------------- C4

\* C4: a call of complete_module(u, m) that directly follows a call with the
\* same arguments that returned (no other call in between or alongside) leaves
\* every row as the first call left it: statuses, started_at, completed_at.
IdempotentCompletion ==
    [][\A p \in Procs :
          (Ends(p) /\ call[p].repeat \in {"applied", "noop"}) => progress' = progress]_vars

\* The second of two calls in a row has returned, after the first one marked
\* the module done.
IdempotentWitness ==
    /\ last.repeat = "applied"
    /\ last.result = "noop"
    /\ progress[last.u][last.m].status = "done"

\* ----------------------------------------------------------------- C5

\* C5: when the SELECT of complete_module(u, m) finds no row for (u, m), or a
\* row that is locked or done, the call returns there, without an error, and no
\* row of any user changes.
PreconditionNoOp ==
    [][\A p \in Procs :
          (/\ pc[p] = "select"
           /\ progress[call[p].u][call[p].m].status \in {NullStatus, "locked", "done"}
           /\ pc'[p] # "select"
           /\ ~ Aborts(p))
          => (/\ pc'[p] = "idle"
              /\ last'.result = "noop"
              /\ progress' = progress
              /\ pending' = pending)]_vars

\* A call on a locked module has returned and the module is still locked.
PreconditionWitness ==
    /\ last.result = "noop"
    /\ progress[last.u][last.m].status = "locked"

\* ----------------------------------------------------------------- C6

\* The rows a committing call (u, m) may change: m and its successor only, m
\* ends done and the successor, if there is one, active or done.
WholeTransition(p) ==
    LET u == call[p].u
        m == call[p].m
        succ == IF \E o \in ModuleIds : modules[o] = modules[m] + 1
                THEN CHOOSE o \in ModuleIds : modules[o] = modules[m] + 1
                ELSE NULL
    IN  /\ progress'[u][m].status = "done"
        /\ succ # NULL => progress'[u][succ].status \in {"active", "done"}
        /\ \A v \in Users, o \in ModuleIds :
              progress'[v][o] # progress[v][o] => (v = u /\ o \in {m, succ})

\* C6: a call that aborts, also after its UPDATE marked m done and before the
\* successor is provisioned, leaves the committed rows as they were before the
\* call; no step of a call but its commit changes the committed rows, and the
\* commit makes m done and provisions the successor together.
Atomicity ==
    [][/\ \A p \in Procs : Aborts(p) => progress' = progress
       /\ progress' # progress =>
             \E p \in Procs : Commits(p) /\ WholeTransition(p)]_vars

\* A call has aborted after it had marked its module done, and the module is
\* active and its successor has no row.
AtomicityWitness ==
    /\ last.result = "failed"
    /\ last.wrote
    /\ progress[last.u][last.m].status = "active"
    /\ \E o \in ModuleIds :
          modules[o] = modules[last.m] + 1 /\ progress[last.u][o] = NoRow

\* ----------------------------------------------------------------- C7

\* C7: of the calls of complete_module(u, m) that ran concurrently and read
\* status = active, only one applies the transition: a call that commits the
\* transition finds the row of (u, m) still active, that is, no other call that
\* also read active has committed it in the meantime.
SerializedCompletions ==
    [][\A p \in Procs :
          Commits(p) => progress[call[p].u][call[p].m].status = "active"]_vars

\* ----------------------------------------------------------------- C8

\* C8: whatever calls are repeated or retried, also after aborted calls and
\* alongside calls still running, a module goes from active to done only by a
\* call for that module and never leaves done, so it does so at most once; a
\* module becomes active only as the successor of the module of the committing
\* call; and a call for a module that is already done changes no status.
NoDoubleAdvance ==
    [][progress' # progress => \A u \in Users, m \in ModuleIds :
          LET s == progress[u][m].status
              t == progress'[u][m].status
          IN  /\ s = "done" => t = "done"
              /\ (t = "done" /\ s # "done") =>
                    /\ s = "active"
                    /\ \E p \in Procs : Commits(p) /\ call[p].u = u /\ call[p].m = m
              /\ (t = "active" /\ s # "active") =>
                    \E p \in Procs :
                        /\ Commits(p) /\ call[p].u = u
                        /\ modules[m] = modules[call[p].m] + 1
              /\ (\E p \in Procs : Ends(p) /\ call[p].u = u /\ call[p].m = m /\ s = "done")
                    => \A o \in ModuleIds : progress'[u][o].status = progress[u][o].status]_vars

\* The retry of a call that had aborted after marking its module done has
\* applied the transition: the module is done, its successor active.
NoDoubleAdvanceWitness ==
    /\ last.repeat = "failed"
    /\ last.result = "applied"
    /\ progress[last.u][last.m].status = "done"
    /\ \E o \in ModuleIds :
          modules[o] = modules[last.m] + 1 /\ progress[last.u][o].status = "active"

\* ----------------------------------------------------------------- C9

\* C9: when a call of complete_module(u, m) commits and the successor of m
\* already has a done row, that row is the same after the call: status,
\* started_at, completed_at.
NoRegression ==
    [][\A p \in Procs : \A o \in ModuleIds :
          (/\ Commits(p)
           /\ modules[o] = modules[call[p].m] + 1
           /\ progress[call[p].u][o].status = "done")
          => progress'[call[p].u][o] = progress[call[p].u][o]]_vars

\* A call has completed a module whose successor was done before: the
\* successor still carries its old timestamps.
NoRegressionWitness ==
    /\ last.result = "applied"
    /\ progress[last.u][last.m].status = "done"
    /\ progress[last.u][last.m].completed_at >= 1
    /\ \E o \in ModuleIds :
          modules[o] = modules[last.m] + 1 /\ progress[last.u][o] = Row("done", 0, 0, 0)

\* ---------------------------------------------------------------- C10

\* C10: a call of complete_module(u, m) on the last module of the catalog,
\* active for u, that runs to its end commits without error, sets m done and
\* creates or changes no other row.
TerminalModule ==
    [][\A p \in Procs :
          (/\ pc[p] = "commit" /\ Ends(p) /\ ~ Aborts(p)
           /\ IsLastModule(call[p].m))
          => (/\ last'.result = "applied"
              /\ progress'[call[p].u][call[p].m].status = "done"
              /\ \A v \in Users, o \in ModuleIds :
                    (v # call[p].u \/ o # call[p].m) => progress'[v][o] = progress[v][o])]_vars

\* The last module of the catalog has been completed by a call.
TerminalWitness ==
    /\ last.result = "applied"
    /\ IsLastModule(last.m)
    /\ progress[last.u][last.m].status = "done"

\* ---------------------------------------------------------------- C11

HasSuccessor(m) == \E o \in ModuleIds : modules[o] > modules[m]

\* The successor of m in catalog order: the module with the smallest
\* order_index greater than that of m.
Successor(m) ==
    CHOOSE o \in ModuleIds :
        /\ modules[o] > modules[m]
        /\ \A q \in ModuleIds : modules[q] > modules[m] => modules[o] <= modules[q]

\* C11: in every state, if the row of a user for module m is done and m has a
\* successor in catalog order, the user has a row for that successor and it is
\* active or done.
NextAlwaysOpened ==
    \A u \in Users, m \in ModuleIds :
        (progress[u][m].status = "done" /\ HasSuccessor(m))
            => progress[u][Successor(m)].status \in {"active", "done"}

\* ---------------------------------------------------------------- C12

\* C12: a call that passed its guard and commits changes exactly one row from
\* active to done, the row of its module, and at most one other row into
\* active, the successor; no other status changes.
CompletionPostcondition ==
    [][\A p \in Procs :
          Commits(p) =>
             LET u == call[p].u
                 m == call[p].m
                 toDone == {o \in ModuleIds : /\ progress[u][o].status = "active"
                                              /\ progress'[u][o].status = "done"}
                 toActive == {o \in ModuleIds : /\ progress[u][o].status # "active"
                                                /\ progress'[u][o].status = "active"}
             IN  /\ toDone = {m}
                 /\ Cardinality(toActive) <= 1
                 /\ \A o \in toActive : modules[o] > modules[m]
                 /\ \A v \in Users, o \in ModuleIds :
                       progress'[v][o].status # progress[v][o].status
                           => (v = u /\ o \in toDone \cup toActive)]_vars

\* ---------------------------------------------------------------- C13

\* C13: completed_at changes only in the step that takes the status of the row
\* to done, and once set it keeps its value in every later step.
CompletedAtImmutable ==
    [][\A u \in Users, m \in ModuleIds :
          LET old == progress[u][m]
              new == progress'[u][m]
          IN  /\ old.completed_at # NULL => new.completed_at = old.completed_at
              /\ new.completed_at # old.completed_at
                    => (old.status # "done" /\ new.status = "done")
              /\ (old.status # "done" /\ new.status = "done")
                    => new.completed_at # NULL]_vars

\* ---------------------------------------------------------------- C14

\* C14: a row that is done stays done in every step: no call of
\* complete_module, for any user or module and in any interleaving, makes it
\* active or locked or removes it.
OnceDoneAlwaysDone ==
    [][\A u \in Users, m \in ModuleIds :
          progress[u][m].status = "done" => progress'[u][m].status = "done"]_vars

\* A call has completed the module before a module that was done out of
\* order (a module further back is not done): the done module is still done.
OnceDoneWitness ==
    /\ last.result = "applied"
    /\ \E o \in ModuleIds :
          /\ modules[o] = modules[last.m] + 1
          /\ progress[last.u][o].status = "done"
    /\ \E b \in ModuleIds :
          /\ modules[b] < modules[last.m]
          /\ progress[last.u][b].status # "done"

\* ---------------------------------------------------------------- C15

\* C15: what get_user_modules returns for a user changes only in the step in
\* which a call commits, and then from the state before the transition to the
\* state after it: the module of the call done and its successor active or
\* done.  A reader never sees the module done with the successor not opened.
ReadIsolation ==
    [][\A u \in Users :
          (progress'[u] # progress[u] /\ get_user_modules(u)' # get_user_modules(u)) =>
             \E p \in Procs :
                /\ Commits(p)
                /\ call[p].u = u
                /\ \A i \in 1..NumModules :
                      /\ ModulesInOrder[i] = call[p].m
                            => get_user_modules(u)'[i].status = "done"
                      /\ ModulesInOrder[i] = next_module_id(call[p].m)
                            => get_user_modules(u)'[i].status \in {"active", "done"}]_vars

\* A call has marked its module done and opened the successor, and has not
\* committed: get_user_modules still reports the module active and the
\* successor locked.
ReadIsolationWitness ==
    \E p \in Procs :
        /\ pc[p] = "commit"
        /\ pending[p][call[p].m].status = "done"
        /\ next_module_id(call[p].m) # NULL
        /\ pending[p][next_module_id(call[p].m)].status = "active"
        /\ UserModuleRow(call[p].u, call[p].m).status = "active"
        /\ UserModuleRow(call[p].u, next_module_id(call[p].m)).status = "locked"

\* ---------------------------------------------------------------- C16

\* The rows of user u after a call (u, m) that started at time t and found m
\* active, computed from the rows of u alone.
TransitionOf(rows, m, t) ==
    LET done == [rows EXCEPT ![m] = DoneRow(rows[m], t)]
    IN  IF next_module_id(m) = NULL
        THEN done
        ELSE [done EXCEPT ![next_module_id(m)] =
                 UpsertActive(rows[next_module_id(m)], t)]

\* C16: with each user on their own connection, a call complete_module(u, m)
\* changes no row of another user and never waits for a call of another user;
\* the rows of u change in no step of another user's call, and at the commit
\* they become what the rows of u alone determine, whatever the calls of other
\* users do in between.
CrossUserIndependence ==
    [][\A p \in Procs :
          /\ InFlight(p) =>
                /\ pc[p] = "update" => ENABLED UpdateDone(p)
                /\ pc[p] = "next" => ENABLED OpenNext(p)
                /\ pc'[p] = pc[p] => progress'[call[p].u] = progress[call[p].u]
                /\ pc'[p] # pc[p] =>
                      \A v \in Users \ {call[p].u} : progress'[v] = progress[v]
          /\ Commits(p) =>
                progress'[call[p].u] =
                    TransitionOf(progress[call[p].u], call[p].m, call[p].now)]_vars

\* Both users have a call in progress that has written, and the call of one
\* of them then commits first.
CrossUserWitness ==
    /\ last.result = "applied"
    /\ last.wrote
    /\ \E p \in Procs :
          /\ pc[p] = "commit"
          /\ call[p].u # last.u
          /\ pending[p][call[p].m].status = "done"

\* ---------------------------------------------------------------- C17

\* C17: a press on a card whose module is locked shows the 'lesson
\* unavailable' alert and returns: it does not start the lesson and changes no
\* row, no call and no card; only a press on an active module starts the
\* lesson.
LockedNonInteractive ==
    [][ui' # ui =>
          /\ MODULES[ui'.card] = "locked" =>
                /\ ui'.alert
                /\ ~ ui'.started
                /\ UNCHANGED <<modules, progress, pending, pc, call>>
          /\ ui'.alert => MODULES[ui'.card] = "locked"
          /\ ui'.started => MODULES[ui'.card] = "active"]_vars

\* A locked card has been pressed and the alert is shown.
LockedPressWitness ==
    /\ ui.card >= 1
    /\ MODULES[ui.card] = "locked"
    /\ ui.alert
    /\ ~ ui.started

\* ---------------------------------------------------------------- C18

\* C18: for any catalog with distinct positions, contiguous or with gaps, a
\* call that commits the completion of m opens the successor of m in catalog
\* order, the module with the smallest order_index greater than that of m: the
\* successor is active or done afterwards, no other module becomes active, and
\* nothing is opened only if m is the last module.
SuccessorSelection ==
    [][\A p \in Procs :
          Commits(p) =>
             LET u == call[p].u
                 m == call[p].m
             IN  /\ HasSuccessor(m) =>
                       progress'[u][Successor(m)].status \in {"active", "done"}
                 /\ \A o \in ModuleIds :
                       (progress'[u][o].status = "active" /\ progress[u][o].status # "active")
                           => (HasSuccessor(m) /\ o = Successor(m))]_vars

\* ---------------------------------------------------------------- C19

\* The rule of the specification: done if stored done; else active if m is
\* the first module or every module before m has effective status done; else
\* locked.
RECURSIVE EffectiveStatus(_, _)
EffectiveStatus(u, m) ==
    IF progress[u][m].status = "done" THEN "done"
    ELSE IF \A o \in ModuleIds : modules[o] >= modules[m] THEN "active"
    ELSE IF \A o \in ModuleIds :
               modules[o] < modules[m] => EffectiveStatus(u, o) = "done"
         THEN "active"
         ELSE "locked"

\* C19: for every user, every set of stored rows and every module m that is
\* not stored as done, the status the design document's functions compute
\* (get_module_status and the CASE of get_user_modules: first module active,
\* else active iff as many done rows as modules come before m) is the status
\* of the rule: active iff m is first or every module before m is effectively
\* done, else locked.
ProjectionRule ==
    \A u \in Users, m \in ModuleIds :
        progress[u][m].status # "done" =>
            /\ get_module_status(u, m) = EffectiveStatus(u, m)
            /\ module_statuses(u, m) = EffectiveStatus(u, m)

\* Stored rows that break the prefix: a module is computed active although
\* its stored row says locked, and a later module is computed locked although
\* a module after it is stored done.
ProjectionWitness ==
    \E u \in Users : \E a, b, c \in ModuleIds :
        /\ progress[u][a].status = "locked" /\ get_module_status(u, a) = "active"
        /\ modules[a] < modules[b] /\ modules[b] < modules[c]
        /\ get_module_status(u, b) = "locked"
        /\ progress[u][c].status = "done"

\* ---------------------------------------------------------------- C20

\* The rows of user u after complete_module(u, m) called at time t with no
\* other call alongside: unchanged if the guard returns, else the transition.
CompleteModuleOf(rows, m, t) ==
    IF ReturnsEarly(rows[m].status) THEN rows ELSE TransitionOf(rows, m, t)

\* The same effect: which modules are done, which are active or locked or
\* without a row, and the started_at of every row.
SameEffect(a, b) ==
    \A o \in ModuleIds :
        a[o].status = b[o].status /\ a[o].started_at = b[o].started_at

\* The step is the UPDATE of SetDone for (u, m).
IsSetDone(u, m) ==
    /\ pc' = pc /\ ui' = ui
    /\ last'.result = "trigger" /\ last'.u = u /\ last'.m = m

\* The two designs leave the same rows from the rows before the step, for
\* the user and module of the step, whenever the row satisfies the condition.
SameAsOther(locked_too) ==
    /\ \A p \in Procs :
          (/\ Ends(p) /\ ~ Aborts(p)
           /\ (locked_too \/ progress[call[p].u][call[p].m].status # "locked"))
          => SameEffect(progress'[call[p].u],
                        UpdateWithTrigger(progress[call[p].u], call[p].m, call[p].now))
    /\ \A u \in Users, m \in ModuleIds :
          (/\ IsSetDone(u, m)
           /\ (locked_too \/ progress[u][m].status # "locked"))
          => SameEffect(progress'[u], CompleteModuleOf(progress[u], m, now'))

ReadPathsAgree ==
    \A u \in Users, m \in ModuleIds :
        /\ get_module_status(u, m) = module_statuses(u, m)
        /\ module_statuses(u, m) = UserModuleRow(u, m).status

\* ---------------------------------------------------------------- C22

\* C22: in every state, every row that is done has completed_at set and
\* every row that is active has started_at set.
TimestampInvariant ==
    \A u \in Users, m \in ModuleIds :
        /\ progress[u][m].status = "done" => progress[u][m].completed_at # NULL
        /\ progress[u][m].status = "active" => progress[u][m].started_at # NULL

\* A call has completed a module and opened a successor whose stored row was
\* locked, with no started_at: both timestamps are the time of the call.
TimestampWitness ==
    /\ last.result = "applied"
    /\ progress[last.u][last.m].completed_at >= 1
    /\ \E o \in ModuleIds :
          /\ modules[o] = modules[last.m] + 1
          /\ progress[last.u][o].status = "active"
          /\ progress[last.u][o].started_at = progress[last.u][last.m].completed_at
          /\ progress[last.u][o].updated_at = progress[last.u][o].started_at

\* ---------------------------------------------------------------- C23

\* C23: a call that commits leaves the started_at of the module it completes
\* as it was, and a started_at that is set keeps its value in every step: the
\* upsert sets it only where the row is absent or has none, and nothing clears
\* or lowers it.
StartedAtPreserved ==
    [][/\ \A u \in Users, m \in ModuleIds :
             progress[u][m].started_at # NULL
                 => progress'[u][m].started_at = progress[u][m].started_at
       /\ \A p \in Procs :
             Commits(p) =>
                progress'[call[p].u][call[p].m].started_at
                    = progress[call[p].u][call[p].m].started_at]_vars

\* A call has opened a successor that was already active since time 0: the
\* upsert has touched the row (updated_at) and kept its started_at.
StartedAtWitness ==
    /\ last.result = "applied"
    /\ \E o \in ModuleIds :
          /\ modules[o] = modules[last.m] + 1
          /\ progress[last.u][o].status = "active"
          /\ progress[last.u][o].started_at = 0
          /\ progress[last.u][o].updated_at >= 1

\* ---------------------------------------------------------------- C24

StoredDone(u, m) == progress[u][m].status = "done"

\* The stored rows of u break the prefix: a module is done after one that is not.
BreaksPrefix(u) ==
    \E a, c \in ModuleIds :
        modules[a] < modules[c] /\ ~ StoredDone(u, a) /\ StoredDone(u, c)

StoredActive(u) == {m \in ModuleIds : progress[u][m].status = "active"}

LastDonePosition(u) ==
    LET D == {modules[m] : m \in {o \in ModuleIds : StoredDone(u, o)}} IN
    IF D = {} THEN 0 ELSE CHOOSE d \in D : \A e \in D : e <= d

\* C25: in every state reached by interleaved complete_module calls from
\* stores where a user has no row or one active row for the first module, a
\* user has at most one stored row with status active, and it is the row of
\* the module immediately after that user's last done module.
SingleStoredActive ==
    \A u \in Users :
        /\ Cardinality(StoredActive(u)) <= 1
        /\ \A m \in StoredActive(u) : modules[m] = LastDonePosition(u) + 1

\* A second completion has been applied: the first two modules are done and
\* the only stored active row is the third module's, opened by that call.
SingleActiveWitness ==
    /\ last.result = "applied"
    /\ modules[last.m] = 2
    /\ StoredDone(last.u, last.m)
    /\ \E o \in ModuleIds :
          /\ modules[o] = 3
          /\ StoredActive(last.u) = {o}
          /\ progress[last.u][o].started_at = progress[last.u][last.m].completed_at

\* ---------------------------------------------------------------- C26

ActiveBy(u, status(_, _)) == {m \in ModuleIds : status(u, m) = "active"}

\* At most one module is active, the first one in catalog order that is not
\* stored done, and exactly one unless every module is done.
OneActive(u, A) ==
    /\ Cardinality(A) <= 1
    /\ \A m \in A :
          /\ ~ StoredDone(u, m)
          /\ \A o \in ModuleIds : modules[o] < modules[m] => StoredDone(u, o)
    /\ (\E m \in ModuleIds : ~ StoredDone(u, m)) => Cardinality(A) = 1

\* C26: for every user and every set of stored rows, the computed projection
\* (get_module_status, and the CASE of get_user_modules) marks at most one
\* module active, the first module in catalog order that is not done, and
\* exactly one unless every module is done.
UniqueActive ==
    \A u \in Users :
        /\ OneActive(u, ActiveBy(u, get_module_status))
        /\ OneActive(u, ActiveBy(u, module_statuses))

\* Two rows are stored active and the projection marks one module active,
\* a module whose stored row is locked.
UniqueActiveWitness ==
    \E u \in Users :
        /\ Cardinality({m \in ModuleIds : progress[u][m].status = "active"}) >= 2
        /\ \E m \in ActiveBy(u, get_module_status) : progress[u][m].status = "locked"

\* ---------------------------------------------------------------- C27

AllDone(u) == \A m \in ModuleIds : StoredDone(u, m)

\* Every module of a user whose first module is active is eventually done.
EventuallyAllDone ==
    \A u \in Users : (progress[u][FirstModule].status = "active") ~> AllDone(u)

\* Once every module is done and the calls read before that have ended, no
\* step changes the user's rows.
NoChangeAfterAllDone ==
    [][\A u \in Users :
          (/\ AllDone(u)
           /\ \A p \in Procs : call[p].u = u => pc[p] \in {"idle", "select"})
          => progress'[u] = progress[u]]_vars

\* No user has more calls that changed the store than the catalog has modules.
CompletionsBounded == \A u \in Users : completions[u] <= NumModules

\* C27: a user whose first module is active and who keeps calling
\* completeModule on the module currently active (weak fairness on the call
\* and on the statements of a call) eventually has every module done; from
\* then on no call changes the store; and the calls of a user that changed
\* the store are never more than the catalog has modules.
ProgressAndTermination ==
    /\ EventuallyAllDone
    /\ NoChangeAfterAllDone
    /\ [] CompletionsBounded

====
